---- MODULE Spec2Model ----
(***************************************************************************)
(* Model of the video composition engine of createmovie:                   *)
(* VideoEditor.create_video_from_script (src/video/video_editor.py).       *)
(* One behaviour is one call of create_video_from_script on a fresh        *)
(* VideoEditor: the arguments are fixed in the initial state, and every    *)
(* action is one step of the method body (one loop iteration, one stage).  *)
(* Library calls that can raise (MoviePy, PIL, ffmpeg) raise or return     *)
(* nondeterministically.                                                   *)
(***************************************************************************)
EXTENDS Integers, Sequences, FiniteSets, TLC

VARIABLES
    scenes,                  \* script_data["scenes"]: sequence of scene records
    image_files,             \* image_files: scene key -> path
    audio_files,             \* audio_files: scene key -> path
    enable_animation,        \* enable_animation argument
    animation_types,         \* animation_types argument (NoMap stands for None)
    add_subtitles,           \* add_subtitles argument
    bg_video_path,           \* bg_video_path argument
    bgm_path,                \* bgm_path argument
    pc,                      \* position in the method body
    i,                       \* index of the scene the for loop is at
    video_clips,             \* the list video_clips
    previous_animation_type, \* local previous_animation_type
    final_video,             \* local final_video (NoClip before concatenation)
    bg_video_clip,           \* local bg_video_clip: "None", "open" or "closed"
    current_step,            \* update_progress: current_step
    total_steps,             \* update_progress: total_steps
    progress_log,            \* fractions handed to progress_callback, as numerators over total_steps
    error,                   \* the exception that left the method (NoError while none)
    output_file,             \* the file at output_path: "absent", "partial" or "complete"
    helper_call,             \* a computation of the method taken on its own: its name and arguments
    helper_result            \* what that computation yields

vars == <<scenes, image_files, audio_files, enable_animation, animation_types,
          add_subtitles, bg_video_path, bgm_path, pc, i, video_clips, previous_animation_type,
          final_video, bg_video_clip, current_step, total_steps, progress_log,
          error, output_file, helper_call, helper_result>>

helper == <<helper_call, helper_result>>

inputs == <<scenes, image_files, audio_files, enable_animation, animation_types,
            add_subtitles, bg_video_path, bgm_path>>

----------------------------------------------------------------------------
(* Bounds of the model *)

MaxScenes == 3

MaxAudioDuration == 2

\* durations of a background track and of a timeline, in ticks
MaxTrackDuration == 7

MaxTotalDuration == 8

\* largest amplitude of an audio sample
MaxSample == 2

\* subtitle texts, character widths and stroke widths
MaxTextLen == 4

MaxCharWidth == 3

MaxStrokeWidth == 3

\* animated frames: scale in tenths, sides of the target size in pixels,
\* length of a clip in ticks
MaxScaleTenths == 16

MaxSide == 8

MaxClipTicks == 3

\* subtitle layout: font sizes and lengths of texts
MaxFontSize == 10

MaxLayoutTextLen == 3

\* sides of the target size for the zoom, large enough to tell a shrinking
\* by pixels from a rounding
MaxZoomSide == 40

\* scenes of a script handed to the validator
MaxScriptScenes == 2

\* calls of create_video_from_script on one VideoEditor
MaxCalls == 2

\* the wall clock: ticks in a second and the last tick
TicksPerSecond == 2

MaxClock == 5

----------------------------------------------------------------------------
(* Program constants and input domains *)

ANIMATION_TYPES == <<"zoom_in", "slide_left", "slide_right", "slide_up", "slide_down">>

AnimationKinds == {ANIMATION_TYPES[k] : k \in 1..Len(ANIMATION_TYPES)}

\* scene_number values: the join key to the asset maps; not contiguous.
SceneNumbers == {1, 2, 4}

\* duration field of a scene; 3 is the default of scene.get("duration", 3.0).
DeclaredDurations == {1, 3}

\* A path argument: absent from the map (None), an empty value, a path to a
\* file that does not exist, or a path to an existing file.
PathStates == {"none", "empty", "missing", "exists"}

\* An audio path together with the duration of the file it points to.
AudioPaths ==
    {[path |-> p, duration |-> 0] : p \in {"none", "empty", "missing"}}
    \cup {[path |-> "exists", duration |-> d] : d \in 1..MaxAudioDuration}

\* scene.get(subtitle_source, ""): the text of the field subtitle_source names
SubtitleTexts == {"", "text"}

Scenes == [scene_number : SceneNumbers, duration : DeclaredDurations, subtitle : SubtitleTexts]

DefaultScenes == {s \in Scenes : s.duration = 3 /\ s.subtitle = "text"}

RECURSIVE SeqsUpTo(_, _)
SeqsUpTo(S, n) ==
    IF n = 0 THEN {<<>>}
    ELSE LET shorter == SeqsUpTo(S, n - 1)
         IN  shorter \cup {Append(s, x) : s \in {t \in shorter : Len(t) = n - 1}, x \in S}

\* animation_types: None (NoMap), or a dict from scene key to a kind or None;
\* "absent" marks a key the dict does not hold.
NoMap == [k \in SceneNumbers |-> "nomap"]

ExplicitMaps == [SceneNumbers -> AnimationKinds \cup {"None", "absent"}]

NoClip == [duration |-> 0, layers |-> <<>>, audio |-> <<>>, closed |-> FALSE]

NoError == [type |-> "", message |-> ""]

\* config/constants.py
VIDEO_WIDTH == 1080

VIDEO_HEIGHT == 1920

\* _create_subtitle_clip: margin
SubtitleMargin == 100

\* _create_subtitle_clip: padding
SubtitlePadding == 20

NoCall == [op |-> "none"]

NoResult == [op |-> "none"]

\* raise ValueError(...) at line 132 and at line 274: two different messages
NoScenesError == [type |-> "ValueError", message |-> "the script has no scenes"]

NoClipsError == [type |-> "ValueError", message |-> "no video clip was created"]

\* an exception raised by a library call (MoviePy, PIL, ffmpeg)
LibraryError(stage) == [type |-> "Exception", message |-> stage]

----------------------------------------------------------------------------
(* Helpers *)

\* PathUsable without the exists() test
PathGiven(p) == p \notin {"none", "empty"}

\* the negation of `not path or not path.exists()`
PathUsable(p) == p \notin {"none", "empty"} /\ p = "exists"

\* scene_key = str(scene.get("scene_number"))
SceneKey(scene) == scene.scene_number

HasImage(scene) == PathUsable(image_files[SceneKey(scene)])

HasAudio(scene) == PathUsable(audio_files[SceneKey(scene)].path)

\* AudioFileClip(str(audio_path)).duration
ActualDuration(scene) == audio_files[SceneKey(scene)].duration

RECURSIVE SumDurations(_)
SumDurations(clips) ==
    IF clips = <<>> THEN 0
    ELSE Head(clips).duration + SumDurations(Tail(clips))

Min(a, b) == IF a <= b THEN a ELSE b

\* total_steps as computed at lines 136-141
TotalSteps ==
    Len(scenes) + 1 + 1
    + (IF PathUsable(bg_video_path) THEN 1 ELSE 0)
    + (IF PathUsable(bgm_path) THEN 1 ELSE 0)

\* update_progress(message, step_increment): the value handed to the callback,
\* min(current_step / total_steps, 1.0), kept as a numerator over total_steps
Reported(step) == Min(step, total_steps)

\* Logged where the increment is reported in place of the accumulated step
LoggedIncrement(inc) == Append(progress_log, Reported(inc))

\* the callback log after update_progress(message, inc)
Logged(inc) == Append(progress_log, Reported(current_step + inc))

\* the log after update_progress(..., 0) followed by update_progress(..., 1)
LoggedTwice == Append(Logged(0), Reported(current_step + 1))

----------------------------------------------------------------------------
(* Initial state: a fresh VideoEditor and the arguments of the call.  The   *)
(* arguments come from families; each varies one group of arguments over    *)
(* its whole domain and holds the others at fixed values.                   *)

AllImages == [k \in SceneNumbers |-> "exists"]

AllAudio == [k \in SceneNumbers |-> [path |-> "exists", duration |-> 1]]

AudioFiles == {a \in AudioPaths : a.path = "exists"}

NoLayers ==
    /\ enable_animation = FALSE
    /\ animation_types = NoMap
    /\ add_subtitles = FALSE
    /\ bg_video_path = "none"
    /\ bgm_path = "none"

\* the image map varies
ImageInputs ==
    /\ scenes \in SeqsUpTo(DefaultScenes, MaxScenes)
    /\ image_files \in [SceneNumbers -> PathStates]
    /\ audio_files = AllAudio
    /\ NoLayers

\* the audio map varies
AudioInputs ==
    /\ scenes \in SeqsUpTo(DefaultScenes, MaxScenes)
    /\ image_files = AllImages
    /\ audio_files \in [SceneNumbers -> AudioPaths]
    /\ NoLayers

\* both maps vary between a file that exists and one that does not
AssetInputs ==
    /\ scenes \in SeqsUpTo(DefaultScenes, MaxScenes)
    /\ image_files \in [SceneNumbers -> {"missing", "exists"}]
    /\ audio_files \in [SceneNumbers -> {a \in AudioPaths : a.path = "missing" \/ a.duration = 1}]
    /\ NoLayers

\* the declared and the audio durations vary; every asset is present
DurationInputs ==
    /\ scenes \in SeqsUpTo({s \in Scenes : s.subtitle = "text"}, MaxScenes)
    /\ image_files = AllImages
    /\ audio_files \in [SceneNumbers -> AudioFiles]
    /\ NoLayers

\* the subtitle arguments vary; every asset is present
SubtitleInputs ==
    /\ scenes \in SeqsUpTo({s \in Scenes : s.duration = 3}, MaxScenes)
    /\ image_files = AllImages
    /\ audio_files = AllAudio
    /\ enable_animation = FALSE
    /\ animation_types = NoMap
    /\ add_subtitles \in BOOLEAN
    /\ bg_video_path = "none"
    /\ bgm_path = "none"

\* random animation; images are present or absent
RandomInputs ==
    /\ scenes \in SeqsUpTo(DefaultScenes, MaxScenes)
    /\ image_files \in [SceneNumbers -> {"none", "exists"}]
    /\ audio_files = AllAudio
    /\ enable_animation = TRUE
    /\ animation_types = NoMap
    /\ add_subtitles = FALSE
    /\ bg_video_path = "none"
    /\ bgm_path = "none"

\* the explicit animation map varies; every asset is present
ExplicitInputs ==
    /\ scenes \in SeqsUpTo(DefaultScenes, MaxScenes)
    /\ image_files = AllImages
    /\ audio_files = AllAudio
    /\ enable_animation = TRUE
    /\ animation_types \in ExplicitMaps
    /\ add_subtitles = FALSE
    /\ bg_video_path = "none"
    /\ bgm_path = "none"

\* the background layers vary; every asset is present
BackgroundInputs ==
    /\ scenes \in SeqsUpTo(DefaultScenes, MaxScenes)
    /\ image_files = AllImages
    /\ audio_files = AllAudio
    /\ enable_animation = FALSE
    /\ animation_types = NoMap
    /\ add_subtitles = FALSE
    /\ bg_video_path \in {"none", "missing", "exists"}
    /\ bgm_path \in {"none", "missing", "exists"}

Init ==
    /\ \/ ImageInputs
       \/ AudioInputs
       \/ AssetInputs
       \/ DurationInputs
       \/ SubtitleInputs
       \/ RandomInputs
       \/ ExplicitInputs
       \/ BackgroundInputs
    /\ pc = "call"
    /\ i = 0
    /\ video_clips = <<>>
    /\ previous_animation_type = "None"
    /\ final_video = NoClip
    /\ bg_video_clip = "None"
    /\ current_step = 0
    /\ total_steps = 0
    /\ progress_log = <<>>
    /\ error = NoError
    /\ output_file = "absent"
    /\ helper_call = NoCall
    /\ helper_result = NoResult

----------------------------------------------------------------------------
(* create_video_from_script, lines 123-150: the empty script is refused *)

\* NoScenes without the test
NeverNoScenes(script_scenes) == FALSE

\* line 131: `not scenes`
NoScenes(script_scenes) == script_scenes = <<>>

RaiseNoScenes ==
    /\ pc = "call"
    /\ NoScenes(scenes)
    /\ pc' = "raised"
    /\ error' = NoScenesError
    /\ UNCHANGED <<inputs, helper, i, video_clips, previous_animation_type, final_video,
                   bg_video_clip, current_step, total_steps, progress_log, output_file>>

BeginRender ==
    /\ pc = "call"
    /\ ~NoScenes(scenes)
    /\ total_steps' = TotalSteps
    /\ current_step' = 0
    /\ video_clips' = <<>>
    /\ previous_animation_type' = "None"
    /\ i' = 1
    /\ pc' = "scenes"
    /\ UNCHANGED <<inputs, helper, final_video, bg_video_clip, progress_log, error, output_file>>

----------------------------------------------------------------------------
(* the for loop over the scenes, lines 168-271: one iteration per step *)

\* lines 175-185: a missing image or audio file skips the scene (continue)
SkipScene ==
    /\ pc = "scenes"
    /\ i <= Len(scenes)
    /\ ~HasImage(scenes[i]) \/ ~HasAudio(scenes[i])
    /\ i' = i + 1
    /\ UNCHANGED <<inputs, helper, pc, video_clips, previous_animation_type, final_video,
                   bg_video_clip, current_step, total_steps, progress_log, error,
                   output_file>>

\* AvailableAnimations without the exclusion of the previous kind
AnyAnimation(previous) == AnimationKinds

\* lines 221-227: the kinds the random mode chooses from
AvailableAnimations(previous) ==
    LET others == {a \in AnimationKinds : a # previous}
    IN  IF others = {} THEN AnimationKinds ELSE others

\* _apply_animation, lines 440-552: the motion the clip gets for a kind; any
\* other value falls to the else branch, a static resize
AppliedAnimation(kind) == IF kind \in AnimationKinds THEN kind ELSE "static"

\* AnimationChoices where a scene without a kind of its own takes the previous one
AnimationChoicesInherited(scene, previous) ==
    IF enable_animation
    THEN IF animation_types # NoMap
         THEN LET entry == animation_types[SceneKey(scene)]
              IN  IF entry \notin {"absent", "None"}
                  THEN {[animation |-> AppliedAnimation(entry), previous |-> entry]}
                  ELSE {[animation |-> AppliedAnimation(previous), previous |-> previous]}
         ELSE {[animation |-> AppliedAnimation(a), previous |-> a] :
                   a \in AvailableAnimations(previous)}
    ELSE {[animation |-> "static", previous |-> "None"]}

\* lines 196-242: the kinds the scene may get (its motion, or "static") with
\* the value previous_animation_type has afterwards
AnimationChoices(scene, previous) ==
    IF enable_animation
    THEN IF animation_types # NoMap
         THEN LET entry == animation_types[SceneKey(scene)]
              IN  IF entry \notin {"absent", "None"}
                  THEN {[animation |-> AppliedAnimation(entry), previous |-> entry]}
                  ELSE {[animation |-> "static", previous |-> previous]}
         ELSE {[animation |-> AppliedAnimation(a), previous |-> a] :
                   a \in AvailableAnimations(previous)}
    ELSE {[animation |-> "static", previous |-> "None"]}

\* lines 251-259: what _create_subtitle_clip may hand back for the scene: a
\* clip, or None when it caught an exception (lines 705-709); "None" also
\* when it is not called
SubtitleClips(scene) ==
    IF add_subtitles /\ scene.subtitle # ""
    THEN {"clip", "None"}
    ELSE {"None"}

\* Layers without the test of line 259
LayersUnchecked(subtitle_clip) == <<"image", "subtitle">>

\* line 262: CompositeVideoClip([video_clip, subtitle_clip]), bottom layer first
Layers(subtitle_clip) ==
    IF subtitle_clip # "None" THEN <<"image", "subtitle">> ELSE <<"image">>

\* SceneClip with the scene's declared duration
SceneClipDeclared(index, scene, animation, subtitle_clip) ==
    [scene |-> index,
     duration |-> scene.duration,
     animation |-> animation,
     layers |-> Layers(subtitle_clip),
     closed |-> FALSE]

\* lines 244-262: the clip of the scene: the image for the audio's duration,
\* with the audio, under the subtitle
SceneClip(index, scene, animation, subtitle_clip) ==
    [scene |-> index,
     duration |-> ActualDuration(scene),
     animation |-> animation,
     layers |-> Layers(subtitle_clip),
     closed |-> FALSE]

\* Appended where the clips are kept in the order of their scene numbers
InsertedByNumber(clips, clip) ==
    LET Number(c) == scenes[c.scene].scene_number
    IN  SelectSeq(clips, LAMBDA c : Number(c) <= Number(clip))
        \o <<clip>>
        \o SelectSeq(clips, LAMBDA c : Number(c) > Number(clip))

\* line 264: video_clips.append(video_clip)
Appended(clips, clip) == Append(clips, clip)

\* lines 187-267: the scene's clip is built and appended
BuildScene ==
    /\ pc = "scenes"
    /\ i <= Len(scenes)
    /\ HasImage(scenes[i]) /\ HasAudio(scenes[i])
    /\ \E choice \in AnimationChoices(scenes[i], previous_animation_type) :
       \E subtitle_clip \in SubtitleClips(scenes[i]) :
          /\ video_clips' = Appended(video_clips,
                                     SceneClip(i, scenes[i], choice.animation, subtitle_clip))
          /\ previous_animation_type' = choice.previous
    /\ current_step' = current_step + 1
    /\ progress_log' = Logged(1)
    /\ i' = i + 1
    /\ UNCHANGED <<inputs, helper, pc, final_video, bg_video_clip, total_steps, error, output_file>>

\* AfterSceneFailure where the except clause does not raise again and the
\* loop goes on
SceneFailureSwallowed == "scenes"

\* line 271: `raise` in the except clause of the scene's try block
AfterSceneFailure == "raised"

\* lines 269-271: a library call of the try block raises; the exception is
\* logged and raised again
FailScene ==
    /\ pc = "scenes"
    /\ i <= Len(scenes)
    /\ HasImage(scenes[i]) /\ HasAudio(scenes[i])
    /\ pc' = AfterSceneFailure
    /\ error' = LibraryError("scene")
    /\ UNCHANGED <<inputs, helper, i, video_clips, previous_animation_type, final_video,
                   bg_video_clip, current_step, total_steps, progress_log, output_file>>

----------------------------------------------------------------------------
(* the stages after the loop, lines 273-404 *)

\* StageAfter with the music merged before the background video
StageAfterMusicFirst(stage) ==
    CASE stage = "scenes" -> "concatenate"
      [] stage = "concatenate" -> "background_music"
      [] stage = "background_music" -> "background_video"
      [] stage = "background_video" -> "encode"
      [] stage = "encode" -> "returned"

\* the order of the stages in the method body
StageAfter(stage) ==
    CASE stage = "scenes" -> "concatenate"
      [] stage = "concatenate" -> "background_video"
      [] stage = "background_video" -> "background_music"
      [] stage = "background_music" -> "encode"
      [] stage = "encode" -> "returned"

\* the for loop is exhausted
EndScenes ==
    /\ pc = "scenes"
    /\ i > Len(scenes)
    /\ pc' = StageAfter(pc)
    /\ UNCHANGED <<inputs, helper, i, video_clips, previous_animation_type, final_video,
                   bg_video_clip, current_step, total_steps, progress_log, error,
                   output_file>>

\* NoClips without the test
NeverNoClips(clips) == FALSE

\* line 273: `not video_clips`
NoClips(clips) == clips = <<>>

\* lines 273-274: no clip was built
RaiseNoClips ==
    /\ pc = "concatenate"
    /\ NoClips(video_clips)
    /\ pc' = "raised"
    /\ error' = NoClipsError
    /\ UNCHANGED <<inputs, helper, i, video_clips, previous_animation_type, final_video,
                   bg_video_clip, current_step, total_steps, progress_log, output_file>>

\* concatenate_videoclips(video_clips, method="compose"): the clips one after
\* the other, each with its own audio
Timeline(clips) ==
    [duration |-> SumDurations(clips),
     layers |-> <<"scenes">>,
     audio |-> <<"narration">>,
     closed |-> FALSE]

\* lines 276-280
Concatenate ==
    /\ pc = "concatenate"
    /\ ~NoClips(video_clips)
    /\ final_video' = Timeline(video_clips)
    /\ current_step' = current_step + 1
    /\ progress_log' = LoggedTwice
    /\ pc' = StageAfter(pc)
    /\ UNCHANGED <<inputs, helper, i, video_clips, previous_animation_type, bg_video_clip,
                   total_steps, error, output_file>>

\* line 279 raises: nothing catches it
FailConcatenate ==
    /\ pc = "concatenate"
    /\ ~NoClips(video_clips)
    /\ progress_log' = Logged(0)
    /\ pc' = "raised"
    /\ error' = LibraryError("concatenate")
    /\ UNCHANGED <<inputs, helper, i, video_clips, previous_animation_type, final_video,
                   bg_video_clip, current_step, total_steps, output_file>>

\* line 284 is false: no background video
SkipBackgroundVideo ==
    /\ pc = "background_video"
    /\ ~PathUsable(bg_video_path)
    /\ pc' = StageAfter(pc)
    /\ UNCHANGED <<inputs, helper, i, video_clips, previous_animation_type, final_video,
                   bg_video_clip, current_step, total_steps, progress_log, error,
                   output_file>>

\* WithBackground where the background is the last, topmost, clip of the list
BackgroundOnTop(timeline) ==
    [timeline EXCEPT !.layers = timeline.layers \o <<"background">>]

\* line 315: CompositeVideoClip([bg_video_looped, final_video]); the looped
\* background is cut to the timeline's duration and carries no audio
WithBackground(timeline) ==
    [timeline EXCEPT !.layers = <<"background">> \o timeline.layers]

\* lines 285-316
MergeBackgroundVideo ==
    /\ pc = "background_video"
    /\ PathUsable(bg_video_path)
    /\ bg_video_clip' = "open"
    /\ final_video' = WithBackground(final_video)
    /\ current_step' = current_step + 1
    /\ progress_log' = LoggedTwice
    /\ pc' = StageAfter(pc)
    /\ UNCHANGED <<inputs, helper, i, video_clips, previous_animation_type, total_steps,
                   error, output_file>>

\* AfterBackgroundFailure where final_video is bound before the call that raises
BoundBeforeFailure(timeline) == WithBackground(timeline)

\* the value of final_video when the except clause of lines 318-321 is reached
AfterBackgroundFailure(timeline) == timeline

\* lines 318-321: a call of the try block raises, either VideoFileClip (no
\* clip is bound) or a later one (the clip is bound); the exception is logged
FailBackgroundVideo ==
    /\ pc = "background_video"
    /\ PathUsable(bg_video_path)
    /\ \E loaded \in BOOLEAN : bg_video_clip' = IF loaded THEN "open" ELSE "None"
    /\ final_video' = AfterBackgroundFailure(final_video)
    /\ progress_log' = Logged(0)
    /\ pc' = StageAfter(pc)
    /\ UNCHANGED <<inputs, helper, i, video_clips, previous_animation_type, current_step,
                   total_steps, error, output_file>>

\* line 324 is false: no background music
SkipBackgroundMusic ==
    /\ pc = "background_music"
    /\ ~PathUsable(bgm_path)
    /\ pc' = StageAfter(pc)
    /\ UNCHANGED <<inputs, helper, i, video_clips, previous_animation_type, final_video,
                   bg_video_clip, current_step, total_steps, progress_log, error,
                   output_file>>

\* WithMusic putting the music in the place of the timeline's audio
MusicReplaces(timeline) == [timeline EXCEPT !.audio = <<"bgm">>]

\* lines 352-358: the music is mixed with the audio of the timeline, or
\* becomes the audio when the timeline has none
WithMusic(timeline) ==
    IF timeline.audio # <<>>
    THEN [timeline EXCEPT !.audio = timeline.audio \o <<"bgm">>]
    ELSE [timeline EXCEPT !.audio = <<"bgm">>]

\* lines 325-361
MergeBackgroundMusic ==
    /\ pc = "background_music"
    /\ PathUsable(bgm_path)
    /\ final_video' = WithMusic(final_video)
    /\ current_step' = current_step + 1
    /\ progress_log' = LoggedTwice
    /\ pc' = StageAfter(pc)
    /\ UNCHANGED <<inputs, helper, i, video_clips, previous_animation_type, bg_video_clip,
                   total_steps, error, output_file>>

\* the value of final_video when the except clause of lines 363-366 is reached
AfterMusicFailure(timeline) == timeline

\* lines 363-366
FailBackgroundMusic ==
    /\ pc = "background_music"
    /\ PathUsable(bgm_path)
    /\ final_video' = AfterMusicFailure(final_video)
    /\ progress_log' = Logged(0)
    /\ pc' = StageAfter(pc)
    /\ UNCHANGED <<inputs, helper, i, video_clips, previous_animation_type, bg_video_clip,
                   current_step, total_steps, error, output_file>>

\* AllClosed where the clips of video_clips are left open
NoneClosed(clips) == clips

\* lines 398-404, the finally clause: clip.close() for every clip of video_clips
AllClosed(clips) == [k \in DOMAIN clips |-> [clips[k] EXCEPT !.closed = TRUE]]

\* lines 403-404
BackgroundClosed(clip) == IF clip # "None" THEN "closed" ELSE clip

\* lines 378-392 and 398-404: the file is written, the clips are closed and
\* the path is returned
WriteVideo ==
    /\ pc = "encode"
    /\ output_file' = "complete"
    /\ current_step' = current_step + 1
    /\ progress_log' = LoggedTwice
    /\ final_video' = [final_video EXCEPT !.closed = TRUE]
    /\ video_clips' = AllClosed(video_clips)
    /\ bg_video_clip' = BackgroundClosed(bg_video_clip)
    /\ pc' = StageAfter(pc)
    /\ UNCHANGED <<inputs, helper, i, previous_animation_type, total_steps, error>>

\* lines 394-404: write_videofile raises; the clips are closed and the
\* exception is raised again. The file may have been created already.
FailWriteVideo ==
    /\ pc = "encode"
    /\ output_file' \in {"absent", "partial"}
    /\ progress_log' = Logged(0)
    /\ final_video' = [final_video EXCEPT !.closed = TRUE]
    /\ video_clips' = AllClosed(video_clips)
    /\ bg_video_clip' = BackgroundClosed(bg_video_clip)
    /\ pc' = "raised"
    /\ error' = LibraryError("encode")
    /\ UNCHANGED <<inputs, helper, i, previous_animation_type, current_step, total_steps>>

----------------------------------------------------------------------------
Next ==
    \/ RaiseNoScenes
    \/ BeginRender
    \/ SkipScene
    \/ BuildScene
    \/ FailScene
    \/ EndScenes
    \/ RaiseNoClips
    \/ Concatenate
    \/ FailConcatenate
    \/ SkipBackgroundVideo
    \/ MergeBackgroundVideo
    \/ FailBackgroundVideo
    \/ SkipBackgroundMusic
    \/ MergeBackgroundMusic
    \/ FailBackgroundMusic
    \/ WriteVideo
    \/ FailWriteVideo

Spec == Init /\ [][Next]_vars

----------------------------------------------------------------------------
(* The computations below are parts of create_video_from_script and of its *)
(* helpers, taken on their own: helper_call holds the arguments, and the   *)
(* action puts the outcome in helper_result.  No render is under way.      *)

NoRender ==
    /\ scenes = <<>>
    /\ image_files = AllImages
    /\ audio_files = AllAudio
    /\ NoLayers
    /\ pc = "call"
    /\ i = 0
    /\ video_clips = <<>>
    /\ previous_animation_type = "None"
    /\ final_video = NoClip
    /\ bg_video_clip = "None"
    /\ current_step = 0
    /\ total_steps = 0
    /\ progress_log = <<>>
    /\ error = NoError
    /\ output_file = "absent"

render == <<inputs, pc, i, video_clips, previous_animation_type, final_video,
            bg_video_clip, current_step, total_steps, progress_log, error, output_file>>

----------------------------------------------------------------------------
(* Looping a background track to the length of the timeline, lines 293-308 *)
(* (video) and 330-345 (music).  Durations are whole ticks.                *)

\* LoopCount as the ceiling of total / source
LoopCountCeiling(total_duration, source_duration) ==
    (total_duration + source_duration - 1) \div source_duration

\* lines 299 and 336: loop_count = int(total_duration / clip.duration) + 1
LoopCount(total_duration, source_duration) ==
    (total_duration \div source_duration) + 1

\* Subclip that leaves the clip as long as it was
NotCut(clip_duration, t_start, t_end) == clip_duration

\* clip.subclip(t_start, t_end): the duration of the cut
Subclip(clip_duration, t_start, t_end) == t_end - t_start

Max(a, b) == IF a >= b THEN a ELSE b

\* lines 297-308 and 334-345: the copies put one after the other, their
\* length, the length after subclip(0, total_duration), and the length of the
\* timeline once the track is merged (a composite lasts as long as its
\* longest member; a new audio track leaves the video's duration alone)
Looped(track, source_duration, total_duration) ==
    LET copies == IF source_duration < total_duration
                  THEN LoopCount(total_duration, source_duration)
                  ELSE 1
        concatenated == copies * source_duration
        cut == Subclip(concatenated, 0, total_duration)
    IN  [op |-> "loop",
         copies |-> copies,
         concatenated |-> concatenated,
         duration |-> cut,
         merged |-> IF track = "video" THEN Max(cut, total_duration) ELSE total_duration]

LoopCalls ==
    [op : {"loop"},
     track : {"video", "music"},
     source_duration : 1..MaxTrackDuration,
     total_duration : 1..MaxTotalDuration]

LoopInit ==
    /\ NoRender
    /\ helper_call \in LoopCalls
    /\ helper_result = NoResult

\* lines 293-315
LoopBackgroundVideo ==
    /\ helper_call.op = "loop"
    /\ helper_call.track = "video"
    /\ helper_result = NoResult
    /\ helper_result' = Looped("video", helper_call.source_duration, helper_call.total_duration)
    /\ UNCHANGED <<render, helper_call>>

\* lines 330-358
LoopBackgroundMusic ==
    /\ helper_call.op = "loop"
    /\ helper_call.track = "music"
    /\ helper_result = NoResult
    /\ helper_result' = Looped("music", helper_call.source_duration, helper_call.total_duration)
    /\ UNCHANGED <<render, helper_call>>

LoopNext == LoopBackgroundVideo \/ LoopBackgroundMusic

LoopSpec == LoopInit /\ [][LoopNext]_vars

----------------------------------------------------------------------------
(* Mixing the background music into the timeline, lines 347-358.  One      *)
(* audio sample is followed: the narration's and the music's amplitude at  *)
(* some instant.  bgm_volume is in tenths, so amplitudes of the output are *)
(* in tenths of a unit.                                                    *)

\* bgm_volume, 0.0-1.0 (line 116), in tenths; the default is 0.1 (line 94)
Volumes == {0, 1, 5, 10}

Samples == (0 - MaxSample)..MaxSample

\* line 348: volumex(bgm_looped, bgm_volume)
Volumex(sample, volume) == sample * volume

\* the amplitude of one track of the timeline's audio
TrackSample(track, call) ==
    IF track = "narration"
    THEN 10 * call.narration
    ELSE Volumex(call.music, call.bgm_volume)

\* CompositeAudioClip adds its members' amplitudes; no audio is silence
RECURSIVE AudioSample(_, _)
AudioSample(audio, call) ==
    IF audio = <<>>
    THEN 0
    ELSE TrackSample(Head(audio), call) + AudioSample(Tail(audio), call)

\* lines 347-358 on a timeline whose audio is call.timeline_audio
Mixed(call) ==
    LET timeline == [NoClip EXCEPT !.audio = call.timeline_audio]
        with_music == WithMusic(timeline)
    IN  [op |-> "mix",
         audio |-> with_music.audio,
         sample |-> AudioSample(with_music.audio, call),
         without_music |-> AudioSample(timeline.audio, call)]

MixCalls ==
    [op : {"mix"},
     timeline_audio : {<<>>, <<"narration">>},
     narration : Samples,
     music : Samples,
     bgm_volume : Volumes]

MixInit ==
    /\ NoRender
    /\ helper_call \in MixCalls
    /\ helper_result = NoResult

\* lines 347-358
MixBackgroundMusic ==
    /\ helper_call.op = "mix"
    /\ helper_result = NoResult
    /\ helper_result' = Mixed(helper_call)
    /\ UNCHANGED <<render, helper_call>>

MixNext == MixBackgroundMusic

MixSpec == MixInit /\ [][MixNext]_vars

----------------------------------------------------------------------------
(* Wrapping a subtitle, _create_subtitle_clip lines 574-642, with a font   *)
(* loaded.  A text is a sequence of characters; the font gives each        *)
(* character a width, and a line measures the sum of its characters.       *)

Chars == {"i", "a", "W"}

CharWidths == [Chars -> 1..MaxCharWidth]

\* self.width, a few pixels above the margin so that lines of a few
\* characters reach the wrap width
VideoWidths == {SubtitleMargin + 4, SubtitleMargin + 8}

\* stroke_width of the style
StrokeWidths == 0..MaxStrokeWidth

\* style["size"][0] where the style has a size
StyleSizes == {3, 5}

\* font.getbbox(line): bbox[2] - bbox[0]
RECURSIVE LineWidth(_, _)
LineWidth(line, char_width) ==
    IF line = <<>>
    THEN 0
    ELSE char_width[Head(line)] + LineWidth(Tail(line), char_width)

\* line 581: style.get("size", (self.width - 100, None))[0]
ConfiguredWidth(call) ==
    IF call.has_size THEN call.size ELSE call.width - 100

\* lines 579-582: the wrap width in effect
WrapWidth(call) ==
    LET margin == SubtitleMargin
        stroke_margin == 2 * Max(call.stroke_width, 1)
    IN  Min(ConfiguredWidth(call), call.width - margin - stroke_margin)

\* Committed taking the line with the character that did not fit
CommittedWithOverflow(current_line, test_line) == test_line

\* line 634: lines.append(current_line)
Committed(current_line, test_line) == current_line

\* Started leaving out the character that did not fit
StartedEmpty(char) == <<>>

\* lines 636-639: current_line = char
Started(char) == <<char>>

\* lines 625-639: one character of the loop
WrapChar(lines, current_line, char, char_width, max_width) ==
    LET test_line == Append(current_line, char)
    IN  IF LineWidth(test_line, char_width) <= max_width
        THEN [lines |-> lines, current_line |-> test_line]
        ELSE [lines |-> IF current_line # <<>>
                        THEN Append(lines, Committed(current_line, test_line))
                        ELSE lines,
              current_line |-> Started(char)]

\* Flushed appending the line even when it is empty
FlushedAlways(lines, current_line) == Append(lines, current_line)

\* lines 641-642: if current_line: lines.append(current_line)
Flushed(lines, current_line) ==
    IF current_line # <<>> THEN Append(lines, current_line) ELSE lines

\* lines 620-642: the loop over the text from its k-th character, and the
\* last line
RECURSIVE WrapFrom(_, _, _, _, _, _)
WrapFrom(text, k, lines, current_line, char_width, max_width) ==
    IF k > Len(text)
    THEN Flushed(lines, current_line)
    ELSE LET after == WrapChar(lines, current_line, text[k], char_width, max_width)
         IN  WrapFrom(text, k + 1, after.lines, after.current_line, char_width, max_width)

\* lines 574-642
Wrapped(call) ==
    [op |-> "wrap",
     configured |-> ConfiguredWidth(call),
     max_width |-> WrapWidth(call),
     lines |-> WrapFrom(call.text, 1, <<>>, <<>>, call.char_width, WrapWidth(call))]

WrapCalls ==
    [op : {"wrap"},
     text : SeqsUpTo(Chars, MaxTextLen),
     char_width : CharWidths,
     width : VideoWidths,
     stroke_width : StrokeWidths,
     has_size : {FALSE},
     size : {0}]
    \cup
    [op : {"wrap"},
     text : SeqsUpTo(Chars, MaxTextLen),
     char_width : CharWidths,
     width : VideoWidths,
     stroke_width : {2},
     has_size : {TRUE},
     size : StyleSizes]

WrapInit ==
    /\ NoRender
    /\ helper_call \in WrapCalls
    /\ helper_result = NoResult

\* lines 574-642
WrapSubtitle ==
    /\ helper_call.op = "wrap"
    /\ helper_result = NoResult
    /\ helper_result' = Wrapped(helper_call)
    /\ UNCHANGED <<render, helper_call>>

WrapNext == WrapSubtitle

WrapSpec == WrapInit /\ [][WrapNext]_vars

----------------------------------------------------------------------------
(* The crop window of an animated frame, _apply_animation lines 425-548.   *)
(* scale is in tenths, t and duration are whole ticks, and the float       *)
(* products and quotients of the code are exact fractions here.            *)

\* int(n / d) for d > 0: the fraction is cut toward zero
Truncated(n, d) == IF n >= 0 THEN n \div d ELSE 0 - ((0 - n) \div d)

\* scale, above 1.0, in tenths; the default is 1.2 (line 411)
Scales == 11..MaxScaleTenths

Sides == 1..MaxSide

\* t and duration with 0 <= t <= duration
Instants == {c \in [t : 0..MaxClipTicks, duration : 1..MaxClipTicks] : c.t <= c.duration}

\* lines 426-427: int(self.width * scale)
Scaled(side, scale) == Truncated(side * scale, 10)

\* MoveAmount taking the whole margin and not half of it
MoveAmountWhole(scaled, side) == scaled - side

\* lines 433-434: (scaled_width - self.width) // 2
MoveAmount(scaled, side) == (scaled - side) \div 2

\* ZoomWindow with the crop size going linearly from the scaled side to the
\* target side
ZoomWindowLinear(side, scale, t, duration) ==
    LET scaled == Scaled(side, scale)
        crop == Truncated(scaled * duration - t * (scaled - side), duration)
        low == (scaled - crop) \div 2
    IN  [low |-> low, high |-> low + crop]

\* lines 454-461 on one axis: current_scale = 1.0 + (scale - 1.0) * progress,
\* crop_w = int(output_width / current_scale * scale), the window centred
ZoomWindow(side, scale, t, duration) ==
    LET scaled == Scaled(side, scale)
        crop == Truncated(side * duration * scale, 10 * duration + (scale - 10) * t)
        low == (scaled - crop) \div 2
    IN  [low |-> low, high |-> low + crop]

\* SlideForward with the window starting at the far end
SlideForwardReversed(side, scale, t, duration) ==
    LET move == MoveAmount(Scaled(side, scale), side)
        offset == Truncated(move * (duration - 2 * t), duration)
    IN  [low |-> move + offset, high |-> move + offset + side]

\* lines 472-479 and 510-517 on the sliding axis:
\* offset = int(move * (1 - 2 * progress))
SlideForward(side, scale, t, duration) ==
    LET move == MoveAmount(Scaled(side, scale), side)
        offset == Truncated(move * (duration - 2 * t), duration)
    IN  [low |-> move - offset, high |-> move - offset + side]

\* lines 491-498 and 529-536 on the sliding axis:
\* offset = int(-move + move * 2 * progress)
SlideBackward(side, scale, t, duration) ==
    LET move == MoveAmount(Scaled(side, scale), side)
        offset == Truncated((0 - move) * duration + move * 2 * t, duration)
    IN  [low |-> move - offset, high |-> move - offset + side]

\* the axis a slide does not move along: left = move_x, top = move_y
Still(side, scale) ==
    LET move == MoveAmount(Scaled(side, scale), side)
    IN  [low |-> move, high |-> move + side]

\* lines 436-548: the window handed to img.crop for the frame at time t
CropWindow(call) ==
    LET w == call.width
        h == call.height
        s == call.scale
        t == call.t
        d == call.duration
        x == CASE call.animation_type = "zoom_in" -> ZoomWindow(w, s, t, d)
               [] call.animation_type = "slide_left" -> SlideForward(w, s, t, d)
               [] call.animation_type = "slide_right" -> SlideBackward(w, s, t, d)
               [] OTHER -> Still(w, s)
        y == CASE call.animation_type = "zoom_in" -> ZoomWindow(h, s, t, d)
               [] call.animation_type = "slide_up" -> SlideForward(h, s, t, d)
               [] call.animation_type = "slide_down" -> SlideBackward(h, s, t, d)
               [] OTHER -> Still(h, s)
    IN  [op |-> "crop",
         scaled_width |-> Scaled(w, s),
         scaled_height |-> Scaled(h, s),
         left |-> x.low,
         top |-> y.low,
         right |-> x.high,
         bottom |-> y.high,
         frame_width |-> IF call.animation_type = "zoom_in" THEN w ELSE x.high - x.low,
         frame_height |-> IF call.animation_type = "zoom_in" THEN h ELSE y.high - y.low]

CropCalls ==
    {[op |-> "crop", animation_type |-> a, width |-> w, height |-> h,
      scale |-> s, t |-> c.t, duration |-> c.duration] :
        a \in AnimationKinds, w \in Sides, h \in Sides, s \in Scales, c \in Instants}

CropInit ==
    /\ NoRender
    /\ helper_call \in CropCalls
    /\ helper_result = NoResult

\* lines 438-461
CropZoomFrame ==
    /\ helper_call.op = "crop"
    /\ helper_call.animation_type = "zoom_in"
    /\ helper_result = NoResult
    /\ helper_result' = CropWindow(helper_call)
    /\ UNCHANGED <<render, helper_call>>

\* lines 465-536
CropSlideFrame ==
    /\ helper_call.op = "crop"
    /\ helper_call.animation_type # "zoom_in"
    /\ helper_result = NoResult
    /\ helper_result' = CropWindow(helper_call)
    /\ UNCHANGED <<render, helper_call>>

CropNext == CropZoomFrame \/ CropSlideFrame

CropSpec == CropInit /\ [][CropNext]_vars

\* the zoom on target sizes of some tens of pixels
ZoomSides == 1..MaxZoomSide

ZoomCalls ==
    {[op |-> "crop", animation_type |-> "zoom_in", width |-> w, height |-> h,
      scale |-> s, t |-> c.t, duration |-> c.duration] :
        w \in ZoomSides, h \in Sides, s \in Scales, c \in Instants}

ZoomInit ==
    /\ NoRender
    /\ helper_call \in ZoomCalls
    /\ helper_result = NoResult

ZoomNext == CropZoomFrame

ZoomSpec == ZoomInit /\ [][ZoomNext]_vars

----------------------------------------------------------------------------
(* The size of the subtitle image, _create_subtitle_clip lines 574-648.    *)
(* fontsize * 1.2 is the exact fraction fontsize * 12 / 10.                *)

FontSizes == 1..MaxFontSize

\* LineHeight rounding the product up
LineHeightCeiling(fontsize) == (fontsize * 12 + 9) \div 10

\* line 645: line_height = int(fontsize * 1.2)
LineHeight(fontsize) == Truncated(fontsize * 12, 10)

\* lines 616-642: the wrapped lines with a font, [text] without one
LayoutLines(call) ==
    IF call.font
    THEN WrapFrom(call.text, 1, <<>>, <<>>, call.char_width, WrapWidth(call))
    ELSE <<call.text>>

\* lines 645-648
Layout(call) ==
    LET lines == LayoutLines(call)
        line_height == LineHeight(call.fontsize)
        padding == SubtitlePadding
    IN  [op |-> "layout",
         lines |-> lines,
         line_height |-> line_height,
         img_height |-> Len(lines) * line_height + padding * 2,
         img_width |-> call.width]

LayoutCalls ==
    [op : {"layout"},
     text : SeqsUpTo(Chars, MaxLayoutTextLen),
     char_width : CharWidths,
     width : VideoWidths,
     stroke_width : {2},
     has_size : {FALSE},
     size : {0},
     fontsize : FontSizes,
     font : BOOLEAN]

LayoutInit ==
    /\ NoRender
    /\ helper_call \in LayoutCalls
    /\ helper_result = NoResult

\* lines 616-648 with a font loaded
LayoutWithFont ==
    /\ helper_call.op = "layout"
    /\ helper_call.font
    /\ helper_result = NoResult
    /\ helper_result' = Layout(helper_call)
    /\ UNCHANGED <<render, helper_call>>

\* lines 608-614 and 643-648: no font could be loaded
LayoutWithoutFont ==
    /\ helper_call.op = "layout"
    /\ ~helper_call.font
    /\ helper_result = NoResult
    /\ helper_result' = Layout(helper_call)
    /\ UNCHANGED <<render, helper_call>>

LayoutNext == LayoutWithFont \/ LayoutWithoutFont

LayoutSpec == LayoutInit /\ [][LayoutNext]_vars

----------------------------------------------------------------------------
(* What the looped background video shows at a time t, lines 296-308: the  *)
(* concatenation plays the copy whose start is the last one not after t,   *)
(* at the time elapsed since that start; subclip(0, D) shifts nothing.     *)

\* the copy of the concatenation that is playing at t (the copies start at
\* 0, d, 2d, ...)
PlayingCopy(copies, source_duration, t) ==
    CHOOSE k \in 1..copies :
        /\ (k - 1) * source_duration <= t
        /\ \A j \in 1..copies : (j - 1) * source_duration <= t => j <= k

\* SourceTime without the shift to the start of the copy
SourceTimeUnshifted(t, start) == t

\* the time within the playing copy
SourceTime(t, start) == t - start

\* lines 296-308: the frame of bg_video_looped at time t
LoopedFrame(source_duration, total_duration, t) ==
    LET looped == Looped("video", source_duration, total_duration)
        k == PlayingCopy(looped.copies, source_duration, t)
    IN  [op |-> "frame",
         copy |-> k,
         source_time |-> SourceTime(t, (k - 1) * source_duration)]

FrameCalls ==
    {c \in [op : {"frame"},
            source_duration : 1..MaxTrackDuration,
            total_duration : 1..MaxTotalDuration,
            t : 0..MaxTotalDuration] : c.t < c.total_duration}

FrameInit ==
    /\ NoRender
    /\ helper_call \in FrameCalls
    /\ helper_result = NoResult

\* lines 296-308
ShowBackgroundFrame ==
    /\ helper_call.op = "frame"
    /\ helper_result = NoResult
    /\ helper_result' = LoopedFrame(helper_call.source_duration,
                                    helper_call.total_duration, helper_call.t)
    /\ UNCHANGED <<render, helper_call>>

FrameNext == ShowBackgroundFrame

FrameSpec == FrameInit /\ [][FrameNext]_vars

----------------------------------------------------------------------------
(* ScriptParser.validate_and_normalize and ScriptValidator.validate and    *)
(* normalize (src/scripts).  A script has or lacks a title and has a list  *)
(* of scenes; a scene has or lacks a scene_number, whose value is in       *)
(* tenths (15 is 1.5), and has a dialogue and a duration.  The fields      *)
(* image_prompt and subtitle are present and well formed.                  *)

ScriptNumbers == {0 - 10, 0, 10, 15}

ScriptScenes ==
    [has_scene_number : BOOLEAN,
     scene_number : ScriptNumbers,
     dialogue : {"", "line"},
     duration : {0, 3}]

Scripts ==
    [has_title : BOOLEAN,
     scenes : SeqsUpTo(ScriptScenes, MaxScriptScenes)]

\* script_validator.py lines 45-68: the checks on one scene
SceneAccepted(scene) ==
    /\ scene.has_scene_number
    /\ scene.dialogue # ""
    /\ scene.duration > 0

\* script_validator.py lines 29-71
Validate(script) ==
    /\ script.has_title
    /\ Len(script.scenes) # 0
    /\ \A k \in 1..Len(script.scenes) : SceneAccepted(script.scenes[k])

\* script_validator.py lines 91-98: int(scene["scene_number"]) cuts the
\* fraction; float(duration) keeps the value
NormalizedScene(scene) ==
    [scene_number |-> Truncated(scene.scene_number, 10),
     dialogue |-> scene.dialogue,
     duration |-> scene.duration]

\* script_validator.py lines 88-104
Normalize(script) ==
    [op |-> "validate",
     outcome |-> "returned",
     scenes |-> [k \in 1..Len(script.scenes) |-> NormalizedScene(script.scenes[k])],
     total_duration |-> SumDurations([k \in 1..Len(script.scenes) |->
                                         [duration |-> script.scenes[k].duration]])]

\* script_parser.py line 72: raise ValueError
Rejected == [op |-> "validate", outcome |-> "raised"]

ValidateInit ==
    /\ NoRender
    /\ helper_call \in [op : {"validate"}, script : Scripts]
    /\ helper_result = NoResult

\* script_parser.py lines 70-77, the script is valid
AcceptScript ==
    /\ helper_call.op = "validate"
    /\ helper_result = NoResult
    /\ Validate(helper_call.script)
    /\ helper_result' = Normalize(helper_call.script)
    /\ UNCHANGED <<render, helper_call>>

\* script_parser.py lines 70-72, the script is not valid
RejectScript ==
    /\ helper_call.op = "validate"
    /\ helper_result = NoResult
    /\ ~Validate(helper_call.script)
    /\ helper_result' = Rejected
    /\ UNCHANGED <<render, helper_call>>

ValidateNext == AcceptScript \/ RejectScript

ValidateSpec == ValidateInit /\ [][ValidateNext]_vars

----------------------------------------------------------------------------
(* The frame size over several calls of create_video_from_script on one    *)
(* VideoEditor, lines 73-77 and 124-128.  helper_call holds the            *)
(* video_width and video_height arguments of the calls still to come,      *)
(* helper_result the instance's width and height and the arguments of the  *)
(* calls made.                                                             *)

\* an argument that is None, or a number of pixels
NoSize == [given |-> FALSE, value |-> 0]

SizeArguments == {NoSize} \cup [given : {TRUE}, value : {720, 1280}]

DimensionArguments == [video_width : SizeArguments, video_height : SizeArguments]

\* Dimensions leaving the instance as it is when an argument is missing
DimensionsKept(previous, arguments) ==
    IF arguments.video_width.given /\ arguments.video_height.given
    THEN [width |-> arguments.video_width.value, height |-> arguments.video_height.value]
    ELSE previous

\* lines 125-128: self.width, self.height after the assignment
Dimensions(previous, arguments) ==
    IF arguments.video_width.given /\ arguments.video_height.given
    THEN [width |-> arguments.video_width.value, height |-> arguments.video_height.value]
    ELSE [width |-> VIDEO_WIDTH, height |-> VIDEO_HEIGHT]

\* lines 73-77: VideoEditor()
DimsInit ==
    /\ NoRender
    /\ helper_call \in [op : {"dims"}, calls : SeqsUpTo(DimensionArguments, MaxCalls)]
    /\ helper_result = [op |-> "dims",
                        size |-> [width |-> VIDEO_WIDTH, height |-> VIDEO_HEIGHT],
                        made |-> <<>>]

\* lines 124-128 of the next call
SetDimensions ==
    /\ helper_call.op = "dims"
    /\ helper_call.calls # <<>>
    /\ helper_result' = [op |-> "dims",
                         size |-> Dimensions(helper_result.size, Head(helper_call.calls)),
                         made |-> Append(helper_result.made, Head(helper_call.calls))]
    /\ helper_call' = [helper_call EXCEPT !.calls = Tail(helper_call.calls)]
    /\ UNCHANGED render

DimsNext == SetDimensions

DimsSpec == DimsInit /\ [][DimsNext]_vars

----------------------------------------------------------------------------
(* Two renders that let the output file name be generated, lines 368-392   *)
(* and FileManager.generate_filename (src/utils/file_manager.py).          *)
(* helper_call holds the wall clock in ticks, helper_result the position   *)
(* and the output path of each render.  The renders run side by side.      *)

Renders == {1, 2}

\* datetime.now().strftime("%Y%m%d_%H%M%S"): the time cut to the second
Timestamp(now) == now \div TicksPerSecond

\* file_manager.py lines 124-130: f"{prefix}_{timestamp}.{extension}"
GeneratedName(prefix, extension, now) ==
    [prefix |-> prefix, timestamp |-> Timestamp(now), extension |-> extension]

NoPath == [prefix |-> "", timestamp |-> 0, extension |-> ""]

NameInit ==
    /\ NoRender
    /\ helper_call = [op |-> "name", now |-> 0]
    /\ helper_result = [op |-> "name",
                        at |-> [r \in Renders |-> "start"],
                        output_path |-> [r \in Renders |-> NoPath]]

\* time passes
Tick ==
    /\ helper_call.op = "name"
    /\ helper_call.now < MaxClock
    /\ helper_call' = [helper_call EXCEPT !.now = helper_call.now + 1]
    /\ UNCHANGED <<render, helper_result>>

\* lines 369-375: output_filename is None
GenerateOutputPath(r) ==
    /\ helper_call.op = "name"
    /\ helper_result.at[r] = "start"
    /\ helper_result' =
          [helper_result EXCEPT
              !.at[r] = "encode",
              !.output_path[r] = GeneratedName("video", "mp4", helper_call.now)]
    /\ UNCHANGED <<render, helper_call>>

\* lines 378-392: write_videofile(str(output_path), ...)
WriteOutputFile(r) ==
    /\ helper_call.op = "name"
    /\ helper_result.at[r] = "encode"
    /\ helper_result' = [helper_result EXCEPT !.at[r] = "written"]
    /\ UNCHANGED <<render, helper_call>>

NameNext ==
    \/ Tick
    \/ \E r \in Renders : GenerateOutputPath(r)
    \/ \E r \in Renders : WriteOutputFile(r)

NameSpec == NameInit /\ [][NameNext]_vars

----------------------------------------------------------------------------
(* Properties *)

\* the scene has an image (an audio) file: its entry in the asset map is a
\* path, not empty, to a file that exists
ImagePresent(scene) == image_files[scene.scene_number] = "exists"

AudioPresent(scene) == audio_files[scene.scene_number].path = "exists"

BothPresent(scene) == ImagePresent(scene) /\ AudioPresent(scene)

\* the indices of the scenes that have both assets
Surviving == {k \in 1..Len(scenes) : BothPresent(scenes[k])}

RECURSIVE AudioSum(_)
AudioSum(indices) ==
    IF indices = {} THEN 0
    ELSE LET k == CHOOSE x \in indices : TRUE
         IN  audio_files[scenes[k].scene_number].duration + AudioSum(indices \ {k})

TimelineProduced == final_video.layers # <<>>

Exited == pc \in {"returned", "raised"}

\* C1: when every scene of the script has both an image and an audio file,
\* the timeline's duration is the sum of the scenes' audio durations and each
\* clip lasts as long as its scene's audio, whatever the scenes' declared
\* duration fields say.
C1_TimelineDurationIsAudioSum ==
    (Surviving = 1..Len(scenes))
        => /\ \A k \in DOMAIN video_clips :
                 video_clips[k].duration
                     = audio_files[scenes[video_clips[k].scene].scene_number].duration
           /\ TimelineProduced => final_video.duration = AudioSum(1..Len(scenes))

C1_Witness ==
    /\ Surviving = 1..Len(scenes)
    /\ Len(scenes) >= 2
    /\ TimelineProduced
    /\ \E k \in 1..Len(scenes) :
          scenes[k].duration # audio_files[scenes[k].scene_number].duration
    /\ \E k \in 1..Len(scenes) :
          scenes[k].duration = audio_files[scenes[k].scene_number].duration

\* C2: a scene whose image or audio path is absent, empty or points to no
\* file contributes no clip and raises nothing; once the loop is over the
\* clips are exactly those of the scenes that have both assets, and the
\* timeline lasts the sum of those scenes' audio durations.
C2_SkippedScenesContributeNothing ==
    /\ \A k \in DOMAIN video_clips : video_clips[k].scene \in Surviving
    /\ pc \notin {"call", "scenes", "raised"} => Len(video_clips) = Cardinality(Surviving)
    /\ TimelineProduced => final_video.duration = AudioSum(Surviving)
    /\ (pc = "raised" /\ Surviving # {}) => error.type = "Exception"

C2_Witness ==
    /\ pc = "returned"
    /\ output_file = "complete"
    /\ Len(scenes) = 3
    /\ Surviving = {2}
    /\ ~ImagePresent(scenes[1])
    /\ ~AudioPresent(scenes[3])
    /\ Len(video_clips) = 1

\* C3: a script without scenes is refused before any work: the call raises
\* the no-scenes error with no clip built, no progress reported and no
\* output file.
C3_EmptyScriptRaisesBeforeWork ==
    (scenes = <<>> /\ pc # "call")
        => /\ pc = "raised"
           /\ error = NoScenesError
           /\ i = 0
           /\ video_clips = <<>>
           /\ final_video = NoClip
           /\ bg_video_clip = "None"
           /\ progress_log = <<>>
           /\ output_file = "absent"

C3_Witness == scenes = <<>> /\ pc = "raised" /\ error.type = "ValueError"

\* C4 as claimed: when every scene of a non-empty script is skipped, the call
\* ends with the very error (type and message) of a script without scenes.
C4_SameErrorAsNoScenes ==
    (scenes # <<>> /\ Surviving = {} /\ Exited)
        => pc = "raised" /\ error = NoScenesError

\* C4 as amended: when every scene of a non-empty script is skipped, nothing
\* is concatenated and the call raises an error of the same type as the
\* no-scenes error, ValueError, whose message differs from it.
C4_NoClipsError ==
    /\ TimelineProduced => video_clips # <<>>
    /\ (scenes # <<>> /\ Surviving = {} /\ Exited)
          => /\ pc = "raised"
             /\ error.type = NoScenesError.type
             /\ error.message # NoScenesError.message
             /\ final_video = NoClip
             /\ output_file = "absent"

C4_Witness ==
    /\ Len(scenes) = 2
    /\ Surviving = {}
    /\ pc = "raised"
    /\ error.message = "no video clip was created"

\* C5: on every exit of the call, by return or by exception, every clip
\* created so far is closed: the per-scene clips, the timeline and the
\* background clip.
C5_CleanupOnEveryExit ==
    Exited
        => /\ \A k \in DOMAIN video_clips : video_clips[k].closed
           /\ TimelineProduced => final_video.closed
           /\ bg_video_clip # "open"

\* C6: a failure of the background video stage, or of the background music
\* stage, is not raised: the timeline stays as it was, no error is recorded
\* and the next stage follows (the music stage after the video stage, the
\* encode after the music stage).
C6_OptionalLayerFailureIsAbsorbed ==
    [][/\ FailBackgroundVideo
          => /\ final_video' = final_video
             /\ error' = NoError
             /\ pc' = "background_music"
       /\ FailBackgroundMusic
          => /\ final_video' = final_video
             /\ final_video'.audio = <<"narration">>
             /\ error' = NoError
             /\ pc' = "encode"]_vars

\* the video stage failed (no background layer although the file exists), the
\* music was merged all the same and the file was written
C6_Witness ==
    /\ pc = "returned"
    /\ output_file = "complete"
    /\ bg_video_path = "exists"
    /\ final_video.layers = <<"scenes">>
    /\ bg_video_clip = "closed"
    /\ final_video.audio = <<"narration", "bgm">>

StageRank(stage) ==
    CASE stage = "call" -> 0
      [] stage = "scenes" -> 1
      [] stage = "concatenate" -> 2
      [] stage = "background_video" -> 3
      [] stage = "background_music" -> 4
      [] stage = "encode" -> 5
      [] stage = "returned" -> 6
      [] stage = "raised" -> 6

\* C7: the stages run one after the other in the order scene build,
\* concatenate, background video, background music, encode; the scenes are
\* taken one at a time in order, no clip is built once the loop is left and
\* the file is written by the encode stage alone.
C7_StagesInOrder ==
    [][/\ pc' # pc => (pc' = "raised" \/ StageRank(pc') = StageRank(pc) + 1)
       /\ i' # i => (pc' = "scenes" /\ i' = i + 1)
       /\ Len(video_clips') # Len(video_clips)
             => (pc = "scenes" /\ pc' = "scenes" /\ final_video = NoClip)
       /\ final_video' # final_video => StageRank(pc) >= 2
       /\ output_file' # output_file => pc = "encode"]_vars

C7_Witness ==
    /\ pc = "returned"
    /\ Len(video_clips) = 3
    /\ final_video.layers = <<"background", "scenes">>
    /\ final_video.audio = <<"narration", "bgm">>
    /\ output_file = "complete"

\* C8: the clips are in the order of their scenes in the script, whatever
\* the scene numbers are and whichever scenes were skipped.
C8_ClipsInScriptOrder ==
    \A a, b \in DOMAIN video_clips :
        a < b => video_clips[a].scene < video_clips[b].scene

\* two clips around a skipped scene, the first with the larger scene number
C8_Witness ==
    /\ pc = "concatenate"
    /\ Len(video_clips) = 2
    /\ video_clips[1].scene = 1
    /\ video_clips[2].scene = 3
    /\ scenes[1].scene_number > scenes[3].scene_number

RandomMode == enable_animation /\ animation_types = NoMap

ExplicitMode == enable_animation /\ animation_types # NoMap

\* C9: in random mode two clips that follow each other never have the same
\* animation kind, also when scenes between them were skipped, and every
\* clip has one of the five kinds.
C9_RandomNeverRepeats ==
    RandomMode
        => /\ \A k \in DOMAIN video_clips : video_clips[k].animation \in AnimationKinds
           /\ \A k \in 1..(Len(video_clips) - 1) :
                 video_clips[k].animation # video_clips[k + 1].animation

C9_Witness ==
    /\ RandomMode
    /\ Len(video_clips) = 2
    /\ video_clips[1].scene = 1
    /\ video_clips[2].scene = 3

\* the entry of the explicit map for the scene a clip was built from
MapEntry(clip) == animation_types[scenes[clip.scene].scene_number]

\* C10: with an explicit map a clip is animated exactly when its scene's key
\* is in the map with a kind that is not None, and then with that kind; a
\* scene that is absent from the map or mapped to None gets a static clip,
\* whatever kind an earlier scene had.
C10_ExplicitMapDecides ==
    ExplicitMode
        => \A k \in DOMAIN video_clips :
              /\ video_clips[k].animation # "static"
                    <=> MapEntry(video_clips[k]) \notin {"absent", "None"}
              /\ video_clips[k].animation # "static"
                    => video_clips[k].animation = MapEntry(video_clips[k])

\* an animated clip followed by the static clips of a scene without a kind
C10_Witness ==
    /\ ExplicitMode
    /\ Len(video_clips) = 3
    /\ video_clips[1].animation \in AnimationKinds
    /\ video_clips[2].animation = "static"
    /\ video_clips[3].animation = "static"
    /\ animation_types[scenes[1].scene_number] \in AnimationKinds
    /\ {animation_types[k] : k \in SceneNumbers} \cap {"absent", "None"} # {}

\* C12: every fraction handed to the progress callback lies in [0, 1] and
\* none is smaller than one handed over earlier in the same render.
C12_ProgressMonotone ==
    /\ progress_log # <<>> => total_steps > 0
    /\ \A k \in DOMAIN progress_log :
          0 <= progress_log[k] /\ progress_log[k] <= total_steps
    /\ \A k \in 1..(Len(progress_log) - 1) : progress_log[k] <= progress_log[k + 1]

\* a whole render with both background stages: repeated and rising fractions
C12_Witness ==
    /\ pc = "returned"
    /\ Len(scenes) = 2
    /\ progress_log = <<1, 2, 2, 3, 3, 4, 4, 5, 5, 6>>
    /\ total_steps = 6

\* the text a scene's subtitle is rendered from, if it is rendered
SubtitleWanted(scene) == add_subtitles /\ scene.subtitle # ""

\* C15: a subtitle that cannot be rendered costs the scene its overlay and
\* nothing else: the clip is still built from the image for the duration of
\* the audio, every scene with both assets has its clip, no exception of the
\* subtitle renderer leaves the call, and the other clips keep their overlay.
C15_SubtitleFailureIsLocal ==
    /\ \A k \in DOMAIN video_clips :
          /\ video_clips[k].layers \in {<<"image">>, <<"image", "subtitle">>}
          /\ video_clips[k].layers = <<"image", "subtitle">>
                => SubtitleWanted(scenes[video_clips[k].scene])
          /\ video_clips[k].duration
                = audio_files[scenes[video_clips[k].scene].scene_number].duration
    /\ pc \notin {"call", "scenes", "raised"} => Len(video_clips) = Cardinality(Surviving)
    /\ error.message \in {"", NoScenesError.message, NoClipsError.message,
                          "scene", "concatenate", "encode"}

\* the first scene lost its subtitle, the second kept it, the file was written
C15_Witness ==
    /\ pc = "returned"
    /\ output_file = "complete"
    /\ Len(video_clips) = 2
    /\ SubtitleWanted(scenes[1]) /\ video_clips[1].layers = <<"image">>
    /\ SubtitleWanted(scenes[2]) /\ video_clips[2].layers = <<"image", "subtitle">>

EncodeFailed == pc = "raised" /\ error = LibraryError("encode")

AllReleased ==
    /\ \A k \in DOMAIN video_clips : video_clips[k].closed
    /\ final_video.closed
    /\ bg_video_clip # "open"

\* C16: when the encode fails the exception leaves the call, no path is
\* returned, and the timeline, every per-scene clip and the background clip
\* are closed; when it succeeds the path is returned after the same cleanup.
C16_EncodeCleanup ==
    /\ EncodeFailed => (AllReleased /\ output_file # "complete")
    /\ pc = "returned" => (AllReleased /\ error = NoError /\ output_file = "complete")
    /\ pc = "encode" => (~final_video.closed /\ video_clips # <<>>)

C16_Witness ==
    /\ EncodeFailed
    /\ Len(video_clips) = 2
    /\ bg_video_clip = "closed"
    /\ final_video.layers = <<"background", "scenes">>

SceneFailed == error = LibraryError("scene")

\* C17: an error raised while a scene's clip is built from assets that exist
\* ends the render: the exception leaves the call, the loop stands at the
\* failing scene, no later scene has a clip, nothing is concatenated and no
\* file is written.
C17_SceneErrorIsFatal ==
    SceneFailed
        => /\ pc = "raised"
           /\ i \in 1..Len(scenes)
           /\ BothPresent(scenes[i])
           /\ \A k \in DOMAIN video_clips : video_clips[k].scene < i
           /\ final_video = NoClip
           /\ output_file = "absent"
           /\ ~ENABLED Next

\* the second of three scenes fails after the first was built
C17_Witness ==
    /\ SceneFailed
    /\ Len(scenes) = 3
    /\ i = 2
    /\ Len(video_clips) = 1

LoopDone == helper_call.op = "loop" /\ helper_result # NoResult

\* ceil(a / b) for whole a >= 0 and b > 0
Ceiling(a, b) == (a + b - 1) \div b

\* C11: for a track of duration d > 0 and a timeline of duration D the
\* looped and cut track lasts exactly D, the copies cover at least D before
\* the cut, and the timeline still lasts D after the merge.
C11_LoopedTrackLastsExactlyTotal ==
    LoopDone
        => /\ helper_result.duration = helper_call.total_duration
           /\ helper_result.concatenated >= helper_call.total_duration
           /\ helper_result.merged = helper_call.total_duration

\* D just above a multiple of d
C11_Witness ==
    /\ LoopDone
    /\ helper_call.source_duration = 3
    /\ helper_call.total_duration = 7
    /\ helper_result.concatenated = 9

\* C20 as claimed: a track shorter than the timeline is copied
\* ceil(D / d) times, also when D is an exact multiple of d.
C20_CopiesAreCeiling ==
    (LoopDone /\ helper_call.source_duration < helper_call.total_duration)
        => helper_result.copies
              = Ceiling(helper_call.total_duration, helper_call.source_duration)

\* C20 as amended: a track shorter than the timeline is copied
\* floor(D / d) + 1 times: ceil(D / d) times when D is no multiple of d, and
\* once more than that when it is.
C20_CopiesAreFloorPlusOne ==
    (LoopDone /\ helper_call.source_duration < helper_call.total_duration)
        => LET d == helper_call.source_duration
               D == helper_call.total_duration
           IN  /\ helper_result.copies * d > D
               /\ (helper_result.copies - 1) * d <= D
               /\ D % d # 0 => helper_result.copies = Ceiling(D, d)
               /\ D % d = 0 => helper_result.copies = Ceiling(D, d) + 1

\* D an exact multiple of d: three copies where two would do
C20_Witness ==
    /\ LoopDone
    /\ helper_call.source_duration = 3
    /\ helper_call.total_duration = 6
    /\ helper_result.copies = 3

MixDone == helper_call.op = "mix" /\ helper_result # NoResult

\* C13: when the timeline carries audio the output is the narration plus the
\* volume-scaled music, so at volume 0 it is the audio of the render without
\* music; the music is the only track exactly when the timeline had no audio.
C13_MusicIsAddedToNarration ==
    MixDone
        => /\ helper_call.timeline_audio # <<>>
                => /\ helper_result.audio = <<"narration", "bgm">>
                   /\ helper_result.sample
                         = 10 * helper_call.narration
                             + helper_call.bgm_volume * helper_call.music
                   /\ helper_call.bgm_volume = 0
                         => helper_result.sample = helper_result.without_music
           /\ helper_call.timeline_audio = <<>>
                => /\ helper_result.audio = <<"bgm">>
                   /\ helper_result.sample = helper_call.bgm_volume * helper_call.music
           /\ helper_result.audio = <<"bgm">> => helper_call.timeline_audio = <<>>

\* loud narration, loud music, volume 0.0: the narration is all that is heard
C13_Witness ==
    /\ MixDone
    /\ helper_call.timeline_audio = <<"narration">>
    /\ helper_call.narration = 2
    /\ helper_call.music = 2
    /\ helper_call.bgm_volume = 0
    /\ helper_result.sample = 20

WrapDone == helper_call.op = "wrap" /\ helper_result # NoResult

CropDone == helper_call.op = "crop" /\ helper_result # NoResult

\* C18: for each of the five animation kinds, every scale above 1.0, every
\* target size and every t in [0, duration], the crop window of the frame
\* lies within the scaled canvas.
C18_CropWindowWithinCanvas ==
    CropDone
        => /\ 0 <= helper_result.left
           /\ 0 <= helper_result.top
           /\ helper_result.right <= helper_result.scaled_width
           /\ helper_result.bottom <= helper_result.scaled_height

\* the last frame of a slide: the window touches the edge of the canvas
C18_Witness ==
    /\ CropDone
    /\ helper_call.animation_type = "slide_left"
    /\ helper_call.t = helper_call.duration
    /\ helper_result.left > 0
    /\ helper_result.right = helper_result.scaled_width

LayoutDone == helper_call.op = "layout" /\ helper_result # NoResult

\* C21 as claimed: the subtitle image is line_count * ceil(font_size * 1.2)
\* + 2 * padding high and as wide as the frame, for every font size.
C21_HeightUsesCeiling ==
    LayoutDone
        => /\ helper_result.img_height
                 = Len(helper_result.lines) * Ceiling(helper_call.fontsize * 12, 10)
                     + 2 * SubtitlePadding
           /\ helper_result.img_width = helper_call.width

\* C21 as amended: the subtitle image is line_count * floor(font_size * 1.2)
\* + 2 * padding high and as wide as the frame, for every font size.
C21_HeightUsesFloor ==
    LayoutDone
        => /\ helper_result.img_height
                 = Len(helper_result.lines) * ((helper_call.fontsize * 12) \div 10)
                     + 2 * SubtitlePadding
           /\ helper_result.img_width = helper_call.width

\* two lines at font size 7: 7 * 1.2 = 8.4, and the lines are 8 high, not 9
C21_Witness ==
    /\ LayoutDone
    /\ helper_call.fontsize = 7
    /\ Len(helper_result.lines) = 2
    /\ helper_result.img_height = 56

\* C22 as claimed: an empty text is laid out as exactly one empty line, the
\* image being one line height plus twice the padding high.
C22_EmptyTextIsOneLine ==
    (LayoutDone /\ helper_call.text = <<>>)
        => /\ Len(helper_result.lines) = 1
           /\ helper_result.img_height
                 = helper_result.line_height + 2 * SubtitlePadding

\* C22 as amended: an empty text is laid out without error; with a font
\* loaded it gives no line at all and an image twice the padding high, and
\* only without any font does it give one empty line.
C22_EmptyTextIsNoLine ==
    (LayoutDone /\ helper_call.text = <<>>)
        => /\ helper_call.font
                => /\ helper_result.lines = <<>>
                   /\ helper_result.img_height = 2 * SubtitlePadding
           /\ ~helper_call.font
                => /\ helper_result.lines = << <<>> >>
                   /\ helper_result.img_height
                         = helper_result.line_height + 2 * SubtitlePadding

\* the empty text with a font loaded
C22_Witness ==
    /\ LayoutDone
    /\ helper_call.text = <<>>
    /\ helper_call.font
    /\ helper_call.fontsize = 5
    /\ helper_result.img_height = 40

SlideLeftDone == CropDone /\ helper_call.animation_type = "slide_left"

\* move_x and move_y of the call
MoveX == MoveAmount(Scaled(helper_call.width, helper_call.scale), helper_call.width)

MoveY == MoveAmount(Scaled(helper_call.height, helper_call.scale), helper_call.height)

\* the left edge of the slide_left window of the call at time u
LeftAt(u) ==
    SlideForward(helper_call.width, helper_call.scale, u, helper_call.duration).low

\* C23 as claimed: for slide_left the window's left edge is at 2 * margin_x
\* at t = 0 and at 0 at t = duration, never increases in between, and the
\* top edge stays at margin_y.
C23_SlideLeftWindowMovesLeft ==
    SlideLeftDone
        => /\ helper_call.t = 0 => helper_result.left = 2 * MoveX
           /\ helper_call.t = helper_call.duration => helper_result.left = 0
           /\ \A u \in 0..helper_call.t : LeftAt(u) >= helper_result.left
           /\ helper_result.top = MoveY

\* C23 as amended: for slide_left the window's left edge is at 0 at t = 0
\* and at 2 * margin_x at t = duration, is margin_x * 2t / duration up to
\* rounding, never decreases in between, and the top edge stays at margin_y.
C23_SlideLeftWindowMovesRight ==
    SlideLeftDone
        => /\ helper_call.t = 0 => helper_result.left = 0
           /\ helper_call.t = helper_call.duration => helper_result.left = 2 * MoveX
           /\ \A u \in 0..helper_call.t : LeftAt(u) <= helper_result.left
           /\ (helper_result.left - 1) * helper_call.duration < 2 * MoveX * helper_call.t
           /\ 2 * MoveX * helper_call.t < (helper_result.left + 1) * helper_call.duration
           /\ helper_result.top = MoveY

\* the last frame of a slide_left with a margin of two pixels
C23_Witness ==
    /\ SlideLeftDone
    /\ helper_call.t = helper_call.duration
    /\ MoveX = 2
    /\ helper_result.left = 4
    /\ helper_result.top = MoveY

ZoomDone == CropDone /\ helper_call.animation_type = "zoom_in"

CropWidth == helper_result.right - helper_result.left

CropHeight == helper_result.bottom - helper_result.top

\* the width of the zoom_in window of the call at time u
CropWidthAt(u) ==
    LET window == ZoomWindow(helper_call.width, helper_call.scale, u, helper_call.duration)
    IN  window.high - window.low

\* the window is centred: the two margins differ by at most the odd pixel
Centred ==
    /\ helper_result.scaled_width - helper_result.right - helper_result.left \in {0, 1}
    /\ helper_result.scaled_height - helper_result.bottom - helper_result.top \in {0, 1}

\* C24 as claimed: for zoom_in the window is centred, its width at progress
\* p = t / duration is scaled_w - p * (scaled_w - target_w) to within a
\* pixel, from the scaled canvas at p = 0 to the target size at p = 1, and
\* the frame has the target size.
C24_ZoomCropShrinksLinearly ==
    ZoomDone
        => LET d == helper_call.duration
               linear_d == helper_result.scaled_width * d
                             - helper_call.t * (helper_result.scaled_width - helper_call.width)
           IN  /\ Centred
               /\ CropWidth * d - linear_d <= d
               /\ linear_d - CropWidth * d <= d
               /\ helper_result.frame_width = helper_call.width
               /\ helper_result.frame_height = helper_call.height

\* C24 as amended: for zoom_in the window is centred, its width at progress
\* p is target_w * scale / (1 + (scale - 1) * p) rounded down, which is the
\* scaled canvas at p = 0 and the target size at p = 1 and never grows in
\* between, and the frame has the target size.
C24_ZoomFactorGrowsLinearly ==
    ZoomDone
        => LET d == helper_call.duration
               t == helper_call.t
               s == helper_call.scale
               current == 10 * d + (s - 10) * t
           IN  /\ Centred
               /\ CropWidth * current <= helper_call.width * d * s
               /\ helper_call.width * d * s < (CropWidth + 1) * current
               /\ CropHeight * current <= helper_call.height * d * s
               /\ helper_call.height * d * s < (CropHeight + 1) * current
               /\ t = 0 => CropWidth = helper_result.scaled_width
               /\ t = d => CropWidth = helper_call.width
               /\ \A u \in 0..t : CropWidthAt(u) >= CropWidth
               /\ helper_result.frame_width = helper_call.width
               /\ helper_result.frame_height = helper_call.height

\* half way through a zoom of 1.6 on a width of 40: the window is 49 wide,
\* three pixels less than the 52 of a linear shrinking
C24_Witness ==
    /\ ZoomDone
    /\ helper_call.width = 40
    /\ helper_call.scale = 16
    /\ helper_call.t = 1
    /\ helper_call.duration = 2
    /\ CropWidth = 49

FrameDone == helper_call.op = "frame" /\ helper_result # NoResult

\* C25: when the background video of duration d is shorter than the timeline
\* of duration D, the merged background shows at every t in [0, D) the
\* source at t mod d, its last frame included.
C25_LoopedFrameIsSourceModulo ==
    (FrameDone /\ helper_call.source_duration < helper_call.total_duration)
        => helper_result.source_time = helper_call.t % helper_call.source_duration

\* the last tick of a timeline of 7 over a source of 3: the third copy has
\* just started
C25_Witness ==
    /\ FrameDone
    /\ helper_call.source_duration = 3
    /\ helper_call.total_duration = 7
    /\ helper_call.t = 6
    /\ helper_result.copy = 3
    /\ helper_result.source_time = 0

ScriptReturned ==
    /\ helper_call.op = "validate"
    /\ helper_result # NoResult
    /\ helper_result.outcome = "returned"

\* C26: every script accepted by validate, and so returned by
\* validate_and_normalize, has a non-empty scene list in which every
\* scene_number is a positive integer and no two scenes share a scene_number.
C26_AcceptedScriptsAreWellNumbered ==
    ScriptReturned
        => /\ helper_result.scenes # <<>>
           /\ \A k \in DOMAIN helper_result.scenes :
                 /\ helper_call.script.scenes[k].scene_number > 0
                 /\ helper_call.script.scenes[k].scene_number % 10 = 0
                 /\ helper_result.scenes[k].scene_number > 0
                 /\ \A j \in DOMAIN helper_result.scenes :
                       j # k => helper_result.scenes[j].scene_number
                                    # helper_result.scenes[k].scene_number

\* C27: whenever the call returns, the last fraction handed to the progress
\* callback is 1.0, also when scenes were skipped or an optional stage failed
\* after its file was found.
C27_LastFractionIsOne ==
    pc = "returned"
        => /\ progress_log # <<>>
           /\ progress_log[Len(progress_log)] = total_steps

RECURSIVE Joined(_)
Joined(lines) ==
    IF lines = <<>> THEN <<>> ELSE Head(lines) \o Joined(Tail(lines))

DimsCalled == helper_call.op = "dims" /\ helper_result.made # <<>>

\* the arguments of the call made last
LastCall == helper_result.made[Len(helper_result.made)]

C30_GeneratedPathsAreDistinct ==
    helper_call.op = "name"
        => \A r, q \in Renders :
              (r # q /\ helper_result.at[r] # "start" /\ helper_result.at[q] # "start")
                  => helper_result.output_path[r] # helper_result.output_path[q]
====
